---- MODULE Spec2Model ----
(***************************************************************************)
(* Model of the ring buffer of github.com/H4RP3R/ring_buffer: the          *)
(* RWMutex-guarded ringBuffer[T] with Push, TryPush, Pop, Get, Clear,      *)
(* DeepClear, Size, IsEmpty and IsFull.                                    *)
(*                                                                         *)
(* The buffer is the record rb; slot indices are 0-based as in the Go      *)
(* code.  The methods are operators on a buffer value that return the new  *)
(* buffer together with the call's results.  Specifications:               *)
(*   SpecSeq   one caller, every call runs to completion;                  *)
(*   SpecTrack the same, with other history variables;                     *)
(*   SpecCount the same, counting the items pushed and popped;             *)
(*   SpecNew   SpecSeq preceded and interrupted by calls of New;           *)
(*   SpecLap   SpecSeq followed with the laps of the write cursor;         *)
(*   Spec      several goroutines, one step per lock section, a bounded    *)
(*             number of calls, all entered in the history hist;           *)
(*   FairSpec  the same goroutines calling without end, fairly scheduled;  *)
(*   SpecChan  the channel-served variant of the buffer, in which a        *)
(*             goroutine running serve() owns the data and the callers     *)
(*             reach it over channels; SpecChanSolo the same, one caller.  *)
(***************************************************************************)
EXTENDS Integers, Sequences, FiniteSets, TLC

\* ---------------------------------------------------------------- bounds
MaxCap == 3
MaxItem == 2
MaxPush == 5
NumProcs == 2
MaxCalls == 3
MaxCapLive == 2
MaxUnread == 2

\* ------------------------------------------------------------ values
Zero == 0
Items == 1..MaxItem
Caps == 1..MaxCap
Procs == 1..NumProcs
NoProc == 0

ErrNil == "nil"
ErrBufferIsFull == "buffer is full"
ErrInvalidBuffCap == "buffer capacity is less than 1"

Min(a, b) == IF a < b THEN a ELSE b

\* ------------------------------------------------------------ the buffer

\* The nil *ringBuffer[T].
NilBuf == [nil |-> TRUE]

\* Mutant of New: capacity 0 is let through.
New_ZeroAccepted(capacity) ==
    IF capacity < 0
    THEN [err |-> ErrInvalidBuffCap, ok |-> FALSE, rb |-> NilBuf]
    ELSE [err |-> ErrNil, ok |-> TRUE,
          rb |-> [data |-> [i \in 0..(capacity - 1) |-> Zero],
                  size |-> 0,
                  cap |-> capacity,
                  writerIdx |-> 0,
                  readerIdx |-> 0,
                  lastWriterIdx |-> 0,
                  wrapped |-> FALSE]]

\* New[T](capacity): nil and the error for capacity < 1, else a buffer of
\* capacity zero-valued slots with zeroed cursors.
New(capacity) ==
    IF capacity < 1
    THEN [err |-> ErrInvalidBuffCap, ok |-> FALSE, rb |-> NilBuf]
    ELSE [err |-> ErrNil, ok |-> TRUE,
          rb |-> [data |-> [i \in 0..(capacity - 1) |-> Zero],
                  size |-> 0,
                  cap |-> capacity,
                  writerIdx |-> 0,
                  readerIdx |-> 0,
                  lastWriterIdx |-> 0,
                  wrapped |-> FALSE]]

\* cap(rb.data): the slice is made with length = capacity and never resliced.
CapData(b) == Cardinality(DOMAIN b.data)

\* Mutant of shiftIdx: the index is left where it is.
shiftIdx_Stuck(b, idx) == [idx |-> idx, round |-> FALSE]

\* Mutant of shiftIdx: the index is advanced without the test for the end.
shiftIdx_NoWrap(b, idx) == [idx |-> idx + 1, round |-> FALSE]

\* shiftIdx(&idx): the advanced index and whether it was reset to 0.
shiftIdx(b, idx) ==
    IF idx < b.cap - 1
    THEN [idx |-> idx + 1, round |-> FALSE]
    ELSE [idx |-> 0, round |-> TRUE]

\* Mutant of writeZeroVal: the slot keeps its value.
writeZeroVal_KeepsSlot(b, idx) ==
    [b EXCEPT !.size = IF b.size > 0 THEN b.size - 1 ELSE b.size]

\* writeZeroVal(idx): zero the slot and decrement size while it is positive.
writeZeroVal(b, idx) ==
    [b EXCEPT !.data[idx] = Zero,
              !.size = IF b.size > 0 THEN b.size - 1 ELSE b.size]

\* The result of a call: the buffer after it and what the caller gets back.
Result(b, v, k, e) == [rb |-> b, val |-> v, ok |-> k, err |-> e]

\* Mutant of Push: size is incremented without comparing it with the capacity.
Push_NoSaturation(b, item) ==
    LET s == IF b.writerIdx < b.cap - 1 THEN b.writerIdx + 1 ELSE 0 IN
    [rb |-> [b EXCEPT !.data[b.writerIdx] = item,
                      !.lastWriterIdx = b.writerIdx,
                      !.size = b.size + 1,
                      !.writerIdx = s,
                      !.wrapped = IF s = 0 THEN TRUE ELSE b.wrapped],
     val |-> Zero, ok |-> TRUE, err |-> ErrNil]

\* Mutant of Push: size stops one short of the capacity.
Push_SizeOneShort(b, item) ==
    LET s == IF b.writerIdx < b.cap - 1 THEN b.writerIdx + 1 ELSE 0 IN
    [rb |-> [b EXCEPT !.data[b.writerIdx] = item,
                      !.lastWriterIdx = b.writerIdx,
                      !.size = IF b.size < b.cap - 1 THEN b.size + 1 ELSE b.size,
                      !.writerIdx = s,
                      !.wrapped = IF s = 0 THEN TRUE ELSE b.wrapped],
     val |-> Zero, ok |-> TRUE, err |-> ErrNil]

\* Mutant of Push: an overwriting push leaves the slot as it is.
Push_KeepsOldWhenFull(b, item) ==
    LET s == IF b.writerIdx < b.cap - 1 THEN b.writerIdx + 1 ELSE 0 IN
    [rb |-> [b EXCEPT !.data[b.writerIdx] =
                          IF b.size < b.cap THEN item ELSE b.data[b.writerIdx],
                      !.lastWriterIdx = b.writerIdx,
                      !.size = IF b.size < b.cap THEN b.size + 1 ELSE b.size,
                      !.writerIdx = s,
                      !.wrapped = IF s = 0 THEN TRUE ELSE b.wrapped],
     val |-> Zero, ok |-> TRUE, err |-> ErrNil]

\* Mutant of Push: the cursor is advanced before the slot is written.
Push_ShiftFirst(b, item) ==
    LET s == IF b.writerIdx < b.cap - 1 THEN b.writerIdx + 1 ELSE 0 IN
    [rb |-> [b EXCEPT !.data[s] = item,
                      !.lastWriterIdx = s,
                      !.size = IF b.size < b.cap THEN b.size + 1 ELSE b.size,
                      !.writerIdx = s,
                      !.wrapped = IF s = 0 THEN TRUE ELSE b.wrapped],
     val |-> Zero, ok |-> TRUE, err |-> ErrNil]

\* Push(item), the section between Lock and the deferred Unlock.
Push(b, item) ==
    LET b1 == [b EXCEPT !.data[b.writerIdx] = item,
                        !.lastWriterIdx = b.writerIdx]
        b2 == IF b1.size < CapData(b1) THEN [b1 EXCEPT !.size = b1.size + 1] ELSE b1
        s  == shiftIdx(b2, b2.writerIdx)
        b3 == [b2 EXCEPT !.writerIdx = s.idx]
        b4 == IF s.round THEN [b3 EXCEPT !.wrapped = TRUE] ELSE b3
    IN  Result(b4, Zero, TRUE, ErrNil)

\* Mutant of Pop: the reader index is not advanced.
Pop_NoAdvance(b) ==
    IF b.size = 0
    THEN [rb |-> b, val |-> Zero, ok |-> FALSE, err |-> ErrNil]
    ELSE [rb |-> writeZeroVal(b, b.readerIdx), val |-> b.data[b.readerIdx],
          ok |-> TRUE, err |-> ErrNil]

\* Mutant of Pop: no test for the empty buffer.
Pop_NoEmptyCheck(b) ==
    LET b1 == writeZeroVal(b, b.readerIdx)
        s  == IF b.readerIdx < b.cap - 1 THEN b.readerIdx + 1 ELSE 0
    IN  [rb |-> [b1 EXCEPT !.readerIdx = s,
                           !.wrapped = IF s = 0 THEN FALSE ELSE b.wrapped],
         val |-> b.data[b.readerIdx], ok |-> TRUE, err |-> ErrNil]

\* Mutant of Pop: the wrapped flag is left as it is.
Pop_KeepsWrapped(b) ==
    IF b.size = 0
    THEN [rb |-> b, val |-> Zero, ok |-> FALSE, err |-> ErrNil]
    ELSE [rb |-> [b EXCEPT !.data[b.readerIdx] = Zero,
                           !.size = b.size - 1,
                           !.readerIdx = IF b.readerIdx < b.cap - 1
                                         THEN b.readerIdx + 1 ELSE 0],
          val |-> b.data[b.readerIdx], ok |-> TRUE, err |-> ErrNil]

\* Pop(), the section between Lock and the deferred Unlock.
Pop(b) ==
    IF b.size = 0
    THEN Result(b, Zero, FALSE, ErrNil)
    ELSE LET item == b.data[b.readerIdx]
             b1 == writeZeroVal(b, b.readerIdx)
             s  == shiftIdx(b1, b1.readerIdx)
             b2 == [b1 EXCEPT !.readerIdx = s.idx]
             b3 == IF s.round THEN [b2 EXCEPT !.wrapped = FALSE] ELSE b2
         IN  Result(b3, item, TRUE, ErrNil)

\* Mutant of IsFull: > for ==.
IsFull_Greater(b) == b.size > Cardinality(DOMAIN b.data)

\* Mutant of IsFull: one free slot already counts as full.
IsFull_OneFree(b) == b.size >= CapData(b) - 1

\* IsFull(), under RLock.
IsFull(b) == b.size = CapData(b)

\* Size(), under RLock.
Size(b) == b.size

\* IsEmpty() == (Size() == 0).
IsEmpty(b) == Size(b) = 0

\* Mutant of Get: the slot written last is returned.
Get_LastWritten(b) ==
    IF b.size = 0
    THEN [rb |-> b, val |-> Zero, ok |-> FALSE, err |-> ErrNil]
    ELSE [rb |-> b, val |-> b.data[b.lastWriterIdx], ok |-> TRUE, err |-> ErrNil]

\* Get(), under RLock.
Get(b) ==
    IF b.size = 0
    THEN Result(b, Zero, FALSE, ErrNil)
    ELSE Result(b, b.data[b.readerIdx], TRUE, ErrNil)

\* Mutant of Clear: size is left as it is.
ClearLocked_KeepsSize(b) ==
    [b EXCEPT !.writerIdx = 0,
              !.readerIdx = 0,
              !.lastWriterIdx = 0,
              !.wrapped = FALSE]

\* Clear(), the section between Lock and Unlock.
ClearLocked(b) ==
    [b EXCEPT !.writerIdx = 0,
              !.readerIdx = 0,
              !.lastWriterIdx = 0,
              !.wrapped = FALSE,
              !.size = 0]

\* DeepClear(), the loop between Lock and Unlock: writeZeroVal(i) for
\* i = from .. cap(rb.data) - 1.
RECURSIVE ZeroFrom(_, _)
ZeroFrom(b, from) ==
    IF from >= CapData(b) THEN b ELSE ZeroFrom(writeZeroVal(b, from), from + 1)

DeepClearLocked(b) == ZeroFrom(b, 0)

\* TryPush(item) run without interference: IsFull(), then Push.
TryPush(b, item) ==
    IF IsFull(b)
    THEN Result(b, Zero, FALSE, ErrBufferIsFull)
    ELSE Push(b, item)

\* Mutant of Clear: the locked section runs on an empty buffer too.
Clear_NoEmptyTest(b) ==
    [rb |-> [b EXCEPT !.writerIdx = 0, !.readerIdx = 0, !.lastWriterIdx = 0,
                      !.wrapped = FALSE, !.size = 0],
     val |-> Zero, ok |-> TRUE, err |-> ErrNil]

\* Clear() run without interference: IsEmpty(), then the locked section.
Clear(b) ==
    IF IsEmpty(b) THEN Result(b, Zero, TRUE, ErrNil)
    ELSE Result(ClearLocked(b), Zero, TRUE, ErrNil)

\* DeepClear() run without interference.
DeepClear(b) ==
    IF IsEmpty(b) THEN Result(b, Zero, TRUE, ErrNil)
    ELSE Result(DeepClearLocked(b), Zero, TRUE, ErrNil)

\* ------------------------------------------------------------ state

VARIABLES
    rb,        \* the ringBuffer value shared by all callers
    last,      \* SpecSeq: the last completed call and what it returned
    phase,     \* SpecSeq: "push" while only Push was called, "pop" while only
               \*          Pop followed those pushes, else "other"
    pushed,    \* SpecSeq: the items of the pushes of phase "push", in order
    popped,    \* SpecSeq: the results of the pops of phase "pop", in order
    fifo,      \* SpecSeq: items accepted by TryPush and neither popped nor cleared
    tryOnly,   \* SpecSeq: neither Push nor DeepClear was called so far
    since,     \* SpecTrack: the last Clear or DeepClear, and the pushes and then
               \*          the pops made after it while nothing else but
               \*          queries was called
    queue,     \* SpecTrack: the unread items, oldest first, that a queue dropping
               \*          its oldest item on a push when full would hold
    unread,    \* SpecCount: per item, how often it was pushed and not yet
               \*          popped; and pushes minus successful pops
    lap,       \* SpecLap: whether a Push took the write cursor from the last
               \*          slot to slot 0 since the flag's last reset
    pc,        \* Spec: where each goroutine is in its current call
    call,      \* Spec: each goroutine's current call and its index in hist
    mu,        \* Spec: the RWMutex: its writer and its set of readers
    hist,      \* Spec: the calls made so far, with invocation/response times
    srv        \* SpecChan: where the serving goroutine is, and the item it holds

phaseVars == <<phase, pushed, popped, fifo, tryOnly>>
trackVars == <<since, queue, unread, lap>>
seqVars == <<last, phase, pushed, popped, fifo, tryOnly, since, queue, unread, lap>>
concVars == <<pc, call, mu, hist, srv>>
vars == <<rb, last, phase, pushed, popped, fifo, tryOnly, since, queue, unread,
          lap, pc, call, mu, hist, srv>>

NoCall == [idx |-> 0, op |-> "none", arg |-> Zero]

\* No wrap of the write cursor so far.
NoLap == [sinceClear |-> FALSE, sinceReset |-> FALSE]

\* The mutex variants start no serving goroutine.
NoServe == [pc |-> "none", item |-> Zero]

NoSince == [op |-> "none", nonEmpty |-> FALSE, phase |-> "other",
            pushed |-> <<>>, popped |-> <<>>]

\* A count that has passed MaxUnread is no longer followed.
Many == MaxUnread + 1
Inc(n) == IF n >= MaxUnread THEN Many ELSE n + 1
Dec(n) == IF n = Many THEN Many ELSE IF n > 0 THEN n - 1 ELSE 0

SeqGhostInit ==
    /\ phase = "push"
    /\ pushed = <<>>
    /\ popped = <<>>
    /\ fifo = <<>>
    /\ tryOnly = TRUE
    /\ since = NoSince
    /\ queue = <<>>
    /\ unread = [items |-> [i \in Items |-> 0], balance |-> 0]
    /\ lap = NoLap

ConcInit ==
    /\ pc = [p \in Procs |-> "idle"]
    /\ call = [p \in Procs |-> NoCall]
    /\ mu = [writer |-> NoProc, readers |-> {}]
    /\ hist = <<>>
    /\ srv = NoServe

\* The state after rb, err := New(c) succeeded.
InitCap(c) ==
    /\ New(c).ok
    /\ rb = New(c).rb
    /\ last = [op |-> "New", arg |-> c, val |-> Zero, ok |-> TRUE, err |-> New(c).err]
    /\ SeqGhostInit
    /\ ConcInit

Init == \E c \in Caps : InitCap(c)

InitLive == \E c \in 1..MaxCapLive : InitCap(c)

\* ------------------------------------------------------------ SpecSeq
\* One caller; every call runs from its first statement to its return.

Returned(op, arg, r) ==
    last' = [op |-> op, arg |-> arg, val |-> r.val, ok |-> r.ok, err |-> r.err]

\* The bookkeeping of the history, which the buffer never reads.
LeavePhases == phase' = "other" /\ pushed' = <<>> /\ popped' = <<>>

\* An item was put into the buffer.
NotePush(item) ==
    /\ queue' = IF Len(queue) < rb.cap THEN Append(queue, item)
                ELSE Append(Tail(queue), item)
    /\ UNCHANGED unread

CountPush(item) ==
    unread' = [items |-> [unread.items EXCEPT ![item] = Inc(@)],
               balance |-> Inc(unread.balance)]

\* A Pop returned r.
NotePop(r) ==
    /\ queue' = IF queue # <<>> THEN Tail(queue) ELSE queue
    /\ UNCHANGED unread

CountPop(r) ==
    unread' = IF ~r.ok THEN unread
              ELSE [items |-> IF r.val \in Items
                              THEN [unread.items EXCEPT ![r.val] = Dec(@)]
                              ELSE unread.items,
                    balance |-> Dec(unread.balance)]

\* A Clear or DeepClear was called.
NoteClear(op) ==
    /\ since' = [op |-> op, nonEmpty |-> rb.size > 0, phase |-> "push",
                 pushed |-> <<>>, popped |-> <<>>]
    /\ queue' = <<>>
    /\ UNCHANGED unread

\* The calls themselves: the buffer after the call and what it returned.
SeqPush(item) ==
    LET r == Push(rb, item) IN
    /\ rb' = r.rb
    /\ Returned("Push", item, r)
    /\ UNCHANGED concVars

SeqTryPush(item) ==
    LET r == TryPush(rb, item) IN
    /\ rb' = r.rb
    /\ Returned("TryPush", item, r)
    /\ UNCHANGED concVars

SeqPop ==
    LET r == Pop(rb) IN
    /\ rb' = r.rb
    /\ Returned("Pop", Zero, r)
    /\ UNCHANGED concVars

SeqGet ==
    LET r == Get(rb) IN
    /\ rb' = r.rb
    /\ Returned("Get", Zero, r)
    /\ UNCHANGED concVars

SeqClear ==
    LET r == Clear(rb) IN
    /\ rb' = r.rb
    /\ Returned("Clear", Zero, r)
    /\ UNCHANGED concVars

SeqDeepClear ==
    LET r == DeepClear(rb) IN
    /\ rb' = r.rb
    /\ Returned("DeepClear", Zero, r)
    /\ UNCHANGED concVars

SeqSize ==
    /\ Returned("Size", Zero, Result(rb, Size(rb), TRUE, ErrNil))
    /\ UNCHANGED rb
    /\ UNCHANGED concVars

SeqIsEmpty ==
    /\ Returned("IsEmpty", Zero, Result(rb, Zero, IsEmpty(rb), ErrNil))
    /\ UNCHANGED rb
    /\ UNCHANGED concVars

SeqIsFull ==
    /\ Returned("IsFull", Zero, Result(rb, Zero, IsFull(rb), ErrNil))
    /\ UNCHANGED rb
    /\ UNCHANGED concVars

\* SpecSeq follows the calls with phase, pushed, popped, fifo and tryOnly.
CallPush(item) ==
    /\ SeqPush(item)
    /\ IF phase = "push" /\ Len(pushed) < MaxPush
       THEN phase' = "push" /\ pushed' = Append(pushed, item) /\ popped' = <<>>
       ELSE LeavePhases
    /\ tryOnly' = FALSE
    /\ fifo' = <<>>
    /\ UNCHANGED trackVars

CallTryPush(item) ==
    /\ SeqTryPush(item)
    /\ LeavePhases
    /\ fifo' = IF tryOnly /\ last'.err = ErrNil THEN Append(fifo, item) ELSE fifo
    /\ UNCHANGED tryOnly
    /\ UNCHANGED trackVars

CallPop ==
    /\ SeqPop
    /\ IF phase \in {"push", "pop"} /\ Len(popped) < rb.cap
       THEN /\ phase' = "pop"
            /\ pushed' = pushed
            /\ popped' = Append(popped, [val |-> last'.val, ok |-> last'.ok])
       ELSE LeavePhases
    /\ fifo' = IF tryOnly /\ last'.ok /\ fifo # <<>> THEN Tail(fifo) ELSE fifo
    /\ UNCHANGED tryOnly
    /\ UNCHANGED trackVars

CallGet ==
    /\ SeqGet
    /\ LeavePhases
    /\ UNCHANGED <<fifo, tryOnly>>
    /\ UNCHANGED trackVars

CallClear ==
    /\ SeqClear
    /\ LeavePhases
    /\ fifo' = <<>>
    /\ UNCHANGED tryOnly
    /\ UNCHANGED trackVars

CallDeepClear ==
    /\ SeqDeepClear
    /\ LeavePhases
    /\ tryOnly' = FALSE
    /\ fifo' = <<>>
    /\ UNCHANGED trackVars

CallSize ==
    /\ SeqSize
    /\ LeavePhases
    /\ UNCHANGED <<fifo, tryOnly>>
    /\ UNCHANGED trackVars

CallIsEmpty ==
    /\ SeqIsEmpty
    /\ LeavePhases
    /\ UNCHANGED <<fifo, tryOnly>>
    /\ UNCHANGED trackVars

CallIsFull ==
    /\ SeqIsFull
    /\ LeavePhases
    /\ UNCHANGED <<fifo, tryOnly>>
    /\ UNCHANGED trackVars

NextSeq ==
    \/ \E item \in Items : CallPush(item)
    \/ \E item \in Items : CallTryPush(item)
    \/ CallPop
    \/ CallGet
    \/ CallClear
    \/ CallDeepClear
    \/ CallSize
    \/ CallIsEmpty
    \/ CallIsFull

SpecSeq == Init /\ [][NextSeq]_vars

\* ------------------------------------------------------------ SpecTrack
\* The same caller and the same calls, followed with since and queue.

TrackPush(item) ==
    /\ SeqPush(item)
    /\ since' = IF since.phase = "push" /\ Len(since.pushed) < rb.cap
                THEN [since EXCEPT !.pushed = Append(since.pushed, item)]
                ELSE NoSince
    /\ NotePush(item)
    /\ UNCHANGED <<phaseVars, lap>>

TrackTryPush(item) ==
    /\ SeqTryPush(item)
    /\ since' = NoSince
    /\ IF last'.err = ErrNil THEN NotePush(item) ELSE UNCHANGED <<queue, unread>>
    /\ UNCHANGED <<phaseVars, lap>>

TrackPop ==
    /\ SeqPop
    /\ since' = IF since.phase \in {"push", "pop"}
                   /\ Len(since.popped) <= Len(since.pushed)
                THEN [since EXCEPT !.phase = "pop",
                                   !.popped = Append(since.popped,
                                                     [val |-> last'.val,
                                                      ok |-> last'.ok])]
                ELSE NoSince
    /\ NotePop([val |-> last'.val, ok |-> last'.ok])
    /\ UNCHANGED <<phaseVars, lap>>

TrackGet == SeqGet /\ UNCHANGED phaseVars /\ UNCHANGED trackVars

TrackClear == SeqClear /\ NoteClear("Clear") /\ UNCHANGED <<phaseVars, lap>>

TrackDeepClear == SeqDeepClear /\ NoteClear("DeepClear") /\ UNCHANGED <<phaseVars, lap>>

TrackSize == SeqSize /\ UNCHANGED phaseVars /\ UNCHANGED trackVars

TrackIsEmpty == SeqIsEmpty /\ UNCHANGED phaseVars /\ UNCHANGED trackVars

TrackIsFull == SeqIsFull /\ UNCHANGED phaseVars /\ UNCHANGED trackVars

NextTrack ==
    \/ \E item \in Items : TrackPush(item)
    \/ \E item \in Items : TrackTryPush(item)
    \/ TrackPop
    \/ TrackGet
    \/ TrackClear
    \/ TrackDeepClear
    \/ TrackSize
    \/ TrackIsEmpty
    \/ TrackIsFull

SpecTrack == Init /\ [][NextTrack]_vars

\* ------------------------------------------------------------ SpecCount
\* The same caller and the same calls, followed with unread.

TallyPush(item) ==
    /\ SeqPush(item)
    /\ CountPush(item)
    /\ UNCHANGED <<since, queue>>
    /\ UNCHANGED <<phaseVars, lap>>

TallyTryPush(item) ==
    /\ SeqTryPush(item)
    /\ IF last'.err = ErrNil THEN CountPush(item) ELSE UNCHANGED unread
    /\ UNCHANGED <<since, queue>>
    /\ UNCHANGED <<phaseVars, lap>>

TallyPop ==
    /\ SeqPop
    /\ CountPop([val |-> last'.val, ok |-> last'.ok])
    /\ UNCHANGED <<since, queue>>
    /\ UNCHANGED <<phaseVars, lap>>

TallyGet == SeqGet /\ UNCHANGED phaseVars /\ UNCHANGED trackVars

TallyClear == SeqClear /\ UNCHANGED phaseVars /\ UNCHANGED trackVars

TallyDeepClear == SeqDeepClear /\ UNCHANGED phaseVars /\ UNCHANGED trackVars

TallySize == SeqSize /\ UNCHANGED phaseVars /\ UNCHANGED trackVars

TallyIsEmpty == SeqIsEmpty /\ UNCHANGED phaseVars /\ UNCHANGED trackVars

TallyIsFull == SeqIsFull /\ UNCHANGED phaseVars /\ UNCHANGED trackVars

NextCount ==
    \/ \E item \in Items : TallyPush(item)
    \/ \E item \in Items : TallyTryPush(item)
    \/ TallyPop
    \/ TallyGet
    \/ TallyClear
    \/ TallyDeepClear
    \/ TallySize
    \/ TallyIsEmpty
    \/ TallyIsFull

SpecCount == Init /\ [][NextCount]_vars

\* ------------------------------------------------------------ SpecLap
\* The same caller and the same calls, followed with lap: sinceClear is
\* whether a push took the write cursor from the last slot to slot 0 since
\* construction or the last call of Clear; sinceReset is the same since
\* construction, the last Clear that found the buffer non-empty or the last
\* Pop that took the read cursor from the last slot to slot 0.

WriterLaps == [sinceClear |-> TRUE, sinceReset |-> TRUE]

LapPush(item) ==
    /\ SeqPush(item)
    /\ lap' = IF rb.writerIdx = rb.cap - 1 THEN WriterLaps ELSE lap
    /\ UNCHANGED <<since, queue, unread>>
    /\ UNCHANGED phaseVars

LapTryPush(item) ==
    /\ SeqTryPush(item)
    /\ lap' = IF last'.err = ErrNil /\ rb.writerIdx = rb.cap - 1
              THEN WriterLaps ELSE lap
    /\ UNCHANGED <<since, queue, unread>>
    /\ UNCHANGED phaseVars

LapPop ==
    /\ SeqPop
    /\ lap' = IF last'.ok /\ rb.readerIdx = rb.cap - 1
              THEN [lap EXCEPT !.sinceReset = FALSE] ELSE lap
    /\ UNCHANGED <<since, queue, unread>>
    /\ UNCHANGED phaseVars

LapGet == SeqGet /\ UNCHANGED phaseVars /\ UNCHANGED trackVars

LapClear ==
    /\ SeqClear
    /\ lap' = [sinceClear |-> FALSE,
               sinceReset |-> IF rb.size > 0 THEN FALSE ELSE lap.sinceReset]
    /\ UNCHANGED <<since, queue, unread>>
    /\ UNCHANGED phaseVars

LapDeepClear == SeqDeepClear /\ UNCHANGED phaseVars /\ UNCHANGED trackVars

LapSize == SeqSize /\ UNCHANGED phaseVars /\ UNCHANGED trackVars

LapIsEmpty == SeqIsEmpty /\ UNCHANGED phaseVars /\ UNCHANGED trackVars

LapIsFull == SeqIsFull /\ UNCHANGED phaseVars /\ UNCHANGED trackVars

NextLap ==
    \/ \E item \in Items : LapPush(item)
    \/ \E item \in Items : LapTryPush(item)
    \/ LapPop
    \/ LapGet
    \/ LapClear
    \/ LapDeepClear
    \/ LapSize
    \/ LapIsEmpty
    \/ LapIsFull

SpecLap == Init /\ [][NextLap]_vars

\* ------------------------------------------------------------ SpecNew
\* The caller starts without a buffer and constructs one, with any capacity
\* argument, before and between the calls of SpecSeq; after a failed New it
\* holds nil and calls no method.

NewCaps == (0 - MaxCap)..MaxCap

InitNil ==
    /\ rb = NilBuf
    /\ last = [op |-> "none", arg |-> Zero, val |-> Zero, ok |-> TRUE, err |-> ErrNil]
    /\ SeqGhostInit
    /\ ConcInit

CallNew(c) ==
    LET r == New(c) IN
    /\ rb' = r.rb
    /\ last' = [op |-> "New", arg |-> c, val |-> Zero, ok |-> r.ok, err |-> r.err]
    /\ phase' = "push" /\ pushed' = <<>> /\ popped' = <<>>
    /\ fifo' = <<>> /\ tryOnly' = TRUE
    /\ since' = NoSince /\ queue' = <<>>
    /\ unread' = [items |-> [i \in Items |-> 0], balance |-> 0]
    /\ lap' = NoLap
    /\ UNCHANGED concVars

NextNew ==
    \/ \E c \in NewCaps : CallNew(c)
    \/ (rb # NilBuf /\ NextSeq)

SpecNew == InitNil /\ [][NextNew]_vars

\* ------------------------------------------------------------ Spec
\* Several goroutines call the methods.  A goroutine takes one step to enter
\* a call, one to acquire the mutex (a writer that finds readers at work takes
\* one more to see them leave) and one to run the section it guards, release
\* it and go on.  Every access to the
\* buffer's fields happens in such a section, so the sections are the atomic
\* steps of the program.

\* sync.RWMutex.  mu.writer is the goroutine whose Lock() has got past the
\* other writers: from then on RLock() blocks, and Lock() returns once the
\* readers that were at work have left.  mu.readers hold the read lock.
CanLock(m) == m.writer = NoProc
CanRLock(m) == m.writer = NoProc
Drained(m) == m.readers = {}
Lock(m, p) == [m EXCEPT !.writer = p]
\* Mutant of Unlock: the write lock is kept.
Unlock_Missing(m, p) == m
Unlock(m, p) == [m EXCEPT !.writer = NoProc]
RLock(m, p) == [m EXCEPT !.readers = m.readers \cup {p}]
RUnlock(m, p) == [m EXCEPT !.readers = m.readers \ {p}]

ReadOps == {"Get", "Size", "IsEmpty", "IsFull"}
CheckOps == {"TryPush", "Clear", "DeepClear"}
WriteOps == {"Push", "Pop"}
ItemOps == {"Push", "TryPush"}
Ops == ReadOps \cup CheckOps \cup WriteOps

\* The time of the next event: invocations and responses are numbered 1, 2, ...
Now == Len(hist) + Cardinality({i \in DOMAIN hist : hist[i].res # 0}) + 1

AllIdle == \A p \in Procs : pc[p] = "idle"

\* Goroutine p calls op(arg).
Invoke(p, op, arg) ==
    /\ pc[p] = "idle"
    /\ Len(hist) < MaxCalls
    /\ hist' = Append(hist, [proc |-> p, op |-> op, arg |-> arg,
                             inv |-> Now, res |-> 0, size |-> rb.size,
                             val |-> Zero, ok |-> FALSE, err |-> ErrNil])
    /\ call' = [call EXCEPT ![p] = [idx |-> Len(hist) + 1, op |-> op, arg |-> arg]]
    /\ pc' = [pc EXCEPT ![p] = IF op \in WriteOps THEN "lock" ELSE "rlock"]
    /\ UNCHANGED <<rb, mu>>
    /\ UNCHANGED <<seqVars, srv>>

\* Goroutine p calls op(arg); the call is not entered in hist, and any number
\* of such calls can be made.
InvokeLive(p, op, arg) ==
    /\ pc[p] = "idle"
    /\ call' = [call EXCEPT ![p] = [idx |-> 0, op |-> op, arg |-> arg]]
    /\ pc' = [pc EXCEPT ![p] = IF op \in WriteOps THEN "lock" ELSE "rlock"]
    /\ UNCHANGED <<rb, mu, hist>>
    /\ UNCHANGED <<seqVars, srv>>

\* p's call returns r's results.
Return(p, r) ==
    /\ hist' = IF call[p].idx = 0
               THEN hist
               ELSE [hist EXCEPT ![call[p].idx] =
                        [@ EXCEPT !.res = Now, !.val = r.val, !.ok = r.ok, !.err = r.err]]
    /\ call' = [call EXCEPT ![p] = NoCall]
    /\ pc' = [pc EXCEPT ![p] = "idle"]

\* rb.mu.Lock() shuts out the other writers and the readers to come; it
\* returns at once when no reader is at work.
AcquireLock(p) ==
    /\ pc[p] = "lock"
    /\ CanLock(mu)
    /\ mu' = Lock(mu, p)
    /\ pc' = [pc EXCEPT ![p] = IF Drained(mu) THEN "locked" ELSE "drain"]
    /\ UNCHANGED <<rb, call, hist>>
    /\ UNCHANGED <<seqVars, srv>>

\* rb.mu.Lock() returns after the last reader has left.
LockReturns(p) ==
    /\ pc[p] = "drain"
    /\ Drained(mu)
    /\ pc' = [pc EXCEPT ![p] = "locked"]
    /\ UNCHANGED <<rb, mu, call, hist>>
    /\ UNCHANGED <<seqVars, srv>>

\* rb.mu.RLock() returns.
AcquireRLock(p) ==
    /\ pc[p] = "rlock"
    /\ CanRLock(mu)
    /\ mu' = RLock(mu, p)
    /\ pc' = [pc EXCEPT ![p] = "read"]
    /\ UNCHANGED <<rb, call, hist>>
    /\ UNCHANGED <<seqVars, srv>>

\* Push's section, also when TryPush calls Push.
DoPush(p) ==
    /\ pc[p] = "locked"
    /\ call[p].op \in {"Push", "TryPush"}
    /\ LET r == Push(rb, call[p].arg) IN
        /\ rb' = r.rb
        /\ Return(p, r)
    /\ mu' = Unlock(mu, p)
    /\ UNCHANGED <<seqVars, srv>>

\* Pop's section.
DoPop(p) ==
    /\ pc[p] = "locked"
    /\ call[p].op = "Pop"
    /\ LET r == Pop(rb) IN
        /\ rb' = r.rb
        /\ Return(p, r)
    /\ mu' = Unlock(mu, p)
    /\ UNCHANGED <<seqVars, srv>>

\* Get's section.
DoGet(p) ==
    /\ pc[p] = "read"
    /\ call[p].op = "Get"
    /\ Return(p, Get(rb))
    /\ mu' = RUnlock(mu, p)
    /\ UNCHANGED rb
    /\ UNCHANGED <<seqVars, srv>>

\* Size's section.
DoSize(p) ==
    /\ pc[p] = "read"
    /\ call[p].op = "Size"
    /\ Return(p, Result(rb, Size(rb), TRUE, ErrNil))
    /\ mu' = RUnlock(mu, p)
    /\ UNCHANGED rb
    /\ UNCHANGED <<seqVars, srv>>

\* IsEmpty: Size's section, compared with 0.
DoIsEmpty(p) ==
    /\ pc[p] = "read"
    /\ call[p].op = "IsEmpty"
    /\ Return(p, Result(rb, Zero, IsEmpty(rb), ErrNil))
    /\ mu' = RUnlock(mu, p)
    /\ UNCHANGED rb
    /\ UNCHANGED <<seqVars, srv>>

\* IsFull's section.
DoIsFull(p) ==
    /\ pc[p] = "read"
    /\ call[p].op = "IsFull"
    /\ Return(p, Result(rb, Zero, IsFull(rb), ErrNil))
    /\ mu' = RUnlock(mu, p)
    /\ UNCHANGED rb
    /\ UNCHANGED <<seqVars, srv>>

\* TryPush: IsFull's section; the error when full, else on to Push.
TryPushIsFull(p) ==
    /\ pc[p] = "read"
    /\ call[p].op = "TryPush"
    /\ mu' = RUnlock(mu, p)
    /\ IF IsFull(rb)
       THEN Return(p, Result(rb, Zero, FALSE, ErrBufferIsFull))
       ELSE /\ pc' = [pc EXCEPT ![p] = "lock"]
            /\ UNCHANGED <<call, hist>>
    /\ UNCHANGED rb
    /\ UNCHANGED <<seqVars, srv>>

\* Clear and DeepClear: IsEmpty's section; return when empty, else on to Lock.
ClearIsEmpty(p) ==
    /\ pc[p] = "read"
    /\ call[p].op \in {"Clear", "DeepClear"}
    /\ mu' = RUnlock(mu, p)
    /\ IF IsEmpty(rb)
       THEN Return(p, Result(rb, Zero, TRUE, ErrNil))
       ELSE /\ pc' = [pc EXCEPT ![p] = "lock"]
            /\ UNCHANGED <<call, hist>>
    /\ UNCHANGED rb
    /\ UNCHANGED <<seqVars, srv>>

\* Clear's locked section.
DoClear(p) ==
    /\ pc[p] = "locked"
    /\ call[p].op = "Clear"
    /\ rb' = ClearLocked(rb)
    /\ Return(p, Result(rb', Zero, TRUE, ErrNil))
    /\ mu' = Unlock(mu, p)
    /\ UNCHANGED <<seqVars, srv>>

\* DeepClear's locked section.
DoDeepClear(p) ==
    /\ pc[p] = "locked"
    /\ call[p].op = "DeepClear"
    /\ rb' = DeepClearLocked(rb)
    /\ Return(p, Result(rb', Zero, TRUE, ErrNil))
    /\ mu' = Unlock(mu, p)
    /\ UNCHANGED <<seqVars, srv>>

\* The steps of a call that is under way.
Step(p) ==
    \/ AcquireLock(p)
    \/ LockReturns(p)
    \/ AcquireRLock(p)
    \/ DoPush(p)
    \/ DoPop(p)
    \/ DoGet(p)
    \/ DoSize(p)
    \/ DoIsEmpty(p)
    \/ DoIsFull(p)
    \/ TryPushIsFull(p)
    \/ ClearIsEmpty(p)
    \/ DoClear(p)
    \/ DoDeepClear(p)

Next ==
    \/ \E p \in Procs, op \in ItemOps, item \in Items : Invoke(p, op, item)
    \/ \E p \in Procs, op \in Ops \ ItemOps : Invoke(p, op, Zero)
    \/ \E p \in Procs : Step(p)

Spec == Init /\ [][Next]_vars

\* The same goroutines making calls without end, none entered in hist.
NextLive ==
    \/ \E p \in Procs, op \in ItemOps, item \in Items : InvokeLive(p, op, item)
    \/ \E p \in Procs, op \in Ops \ ItemOps : InvokeLive(p, op, Zero)
    \/ \E p \in Procs : Step(p)

\* The Go scheduler runs every runnable goroutine.  Among the goroutines
\* blocked in Lock the mutex hands over to the one that starves, and Unlock
\* lets in the readers blocked in RLock before the next writer, so a waiter
\* that can go on again and again does go on.  Nothing obliges a goroutine to
\* make a call.
FairSpec ==
    /\ InitLive
    /\ [][NextLive]_vars
    /\ \A p \in Procs :
          /\ WF_vars(Step(p))
          /\ SF_vars(AcquireLock(p))
          /\ SF_vars(AcquireRLock(p))

\* ------------------------------------------------------------ SpecChan
\* The channel-served variant: New starts a goroutine running serve(), which
\* alone touches data and the cursors; the callers reach it over the
\* unbuffered channels dataChan, dataModified and request.  A send and a
\* receive on the same channel happen together, as one step of both parties;
\* what serve() computes between two channel operations happens with the
\* first of them.  size is read and written under sizeMu.

ChanOps == {"Push", "Pop", "Get", "Clear", "Size", "IsEmpty"}
RequestOps == {"Pop", "Get", "Clear"}

\* The sends on dataModified in serve() and checkRightBound(), and what each
\* sends.
ModifiedSends == [pushModified |-> TRUE, checkCap |-> FALSE,
                  checkWrapped |-> FALSE, checkCaughtUp |-> FALSE,
                  popModified |-> TRUE, clearModified |-> TRUE]

\* The sends on dataChan in serve().
DataSends == {"popData", "getData"}

\* serve(), case item := <-rb.dataChan: the slot is written, the write cursor
\* advanced and size incremented while below cap.
serveData(b, item) ==
    LET s == shiftIdx(b, b.writerIdx) IN
    [b EXCEPT !.data[b.writerIdx] = item,
              !.lastWriterIdx = b.writerIdx,
              !.writerIdx = s.idx,
              !.wrapped = IF s.round THEN TRUE ELSE b.wrapped,
              !.size = IF b.size < b.cap THEN b.size + 1 ELSE b.size]

\* The three tests of checkRightBound(), in their order.
checkRightBound(b, k) ==
    CASE k = 1 -> b.cap = 1
      [] k = 2 -> b.wrapped /\ b.readerIdx > b.cap - 1
      [] k = 3 -> ~b.wrapped /\ b.readerIdx >= b.lastWriterIdx

CheckSend(k) == CASE k = 1 -> "checkCap" [] k = 2 -> "checkWrapped" [] k = 3 -> "checkCaughtUp"

\* serve(), Pop request, from test k of checkRightBound() on: the goroutine
\* stops at the first send whose test holds; past the last test it advances
\* the read cursor and stops at the send of true.
RECURSIVE servePopFrom(_, _)
servePopFrom(b, k) ==
    IF k > 3
    THEN LET s == shiftIdx(b, b.readerIdx) IN
         [rb |-> [b EXCEPT !.readerIdx = s.idx,
                           !.wrapped = IF s.round THEN FALSE ELSE b.wrapped],
          pc |-> "popModified"]
    ELSE IF checkRightBound(b, k)
         THEN [rb |-> b, pc |-> CheckSend(k)]
         ELSE servePopFrom(b, k + 1)

\* serve(), Clear request: writeZeroVal(i) for every slot.
RECURSIVE serveClearFrom(_, _)
serveClearFrom(b, i) ==
    IF i < b.cap THEN serveClearFrom(writeZeroVal(b, i), i + 1) ELSE b

\* The state after New(c) succeeded and started serve().
InitChanCap(c) ==
    /\ New(c).ok
    /\ rb = New(c).rb
    /\ last = [op |-> "New", arg |-> c, val |-> Zero, ok |-> TRUE, err |-> ErrNil]
    /\ SeqGhostInit
    /\ pc = [p \in Procs |-> "idle"]
    /\ call = [p \in Procs |-> NoCall]
    /\ mu = [writer |-> NoProc, readers |-> {}]
    /\ hist = <<>>
    /\ srv = [pc |-> "select", item |-> Zero]

InitChan == \E c \in 1..MaxCapLive : InitChanCap(c)

InitChanSolo == \E c \in Caps : InitChanCap(c)

\* Goroutine p calls op(arg); for a Pop, size and head are what the buffer
\* holds then.
ChanInvoke(p, op, arg) ==
    /\ pc[p] = "idle"
    /\ call' = [call EXCEPT ![p] =
                    [idx |-> 0, op |-> op, arg |-> arg,
                     size |-> IF op = "Pop" THEN rb.size ELSE 0,
                     head |-> IF op = "Pop" THEN rb.data[rb.readerIdx] ELSE Zero]]
    /\ pc' = [pc EXCEPT ![p] = IF op = "Push" THEN "sendData" ELSE "size"]
    /\ UNCHANGED <<rb, srv, last, mu, hist>>
    /\ UNCHANGED <<phaseVars, trackVars>>

\* p's call returns (v, k).
ChanReturn(p, v, k) ==
    /\ last' = [op |-> call[p].op, arg |-> call[p].arg, val |-> v, ok |-> k,
                err |-> ErrNil]
    /\ call' = [call EXCEPT ![p] = NoCall]
    /\ pc' = [pc EXCEPT ![p] = "idle"]

\* Size() and IsEmpty().
ChanSize(p) ==
    /\ pc[p] = "size"
    /\ call[p].op \in {"Size", "IsEmpty"}
    /\ IF call[p].op = "Size"
       THEN ChanReturn(p, rb.size, TRUE)
       ELSE ChanReturn(p, Zero, rb.size = 0)
    /\ UNCHANGED <<rb, srv, mu, hist>>
    /\ UNCHANGED <<phaseVars, trackVars>>

\* The test of Size() or IsEmpty() that Pop, Get and Clear start with.
ChanCheckEmpty(p) ==
    /\ pc[p] = "size"
    /\ call[p].op \in RequestOps
    /\ IF rb.size = 0
       THEN ChanReturn(p, Zero, call[p].op = "Clear")
       ELSE /\ pc' = [pc EXCEPT ![p] = "sendRequest"]
            /\ UNCHANGED <<call, last>>
    /\ UNCHANGED <<rb, srv, mu, hist>>
    /\ UNCHANGED <<phaseVars, trackVars>>

\* Push's rb.dataChan <- item meets the select in serve().
ServePush(p) ==
    /\ pc[p] = "sendData"
    /\ srv.pc = "select"
    /\ rb' = serveData(rb, call[p].arg)
    /\ srv' = [pc |-> "pushModified", item |-> Zero]
    /\ pc' = [pc EXCEPT ![p] = "recvModified"]
    /\ UNCHANGED <<call, last, mu, hist>>
    /\ UNCHANGED <<phaseVars, trackVars>>

\* Pop's rb.request <- Pop meets the select in serve().
ServePop(p) ==
    /\ pc[p] = "sendRequest"
    /\ call[p].op = "Pop"
    /\ srv.pc = "select"
    /\ LET r == servePopFrom(writeZeroVal(rb, rb.readerIdx), 1) IN
        /\ rb' = r.rb
        /\ srv' = [pc |-> r.pc, item |-> rb.data[rb.readerIdx]]
    /\ pc' = [pc EXCEPT ![p] = "recvModified"]
    /\ UNCHANGED <<call, last, mu, hist>>
    /\ UNCHANGED <<phaseVars, trackVars>>

\* Get's rb.request <- Get meets the select in serve().
ServeGet(p) ==
    /\ pc[p] = "sendRequest"
    /\ call[p].op = "Get"
    /\ srv.pc = "select"
    /\ srv' = [pc |-> "getData", item |-> rb.data[rb.readerIdx]]
    /\ pc' = [pc EXCEPT ![p] = "recvData"]
    /\ UNCHANGED <<rb, call, last, mu, hist>>
    /\ UNCHANGED <<phaseVars, trackVars>>

\* Clear's rb.request <- Clear meets the select in serve().
ServeClear(p) ==
    /\ pc[p] = "sendRequest"
    /\ call[p].op = "Clear"
    /\ srv.pc = "select"
    /\ rb' = serveClearFrom(rb, 0)
    /\ srv' = [pc |-> "clearModified", item |-> Zero]
    /\ pc' = [pc EXCEPT ![p] = "recvModified"]
    /\ UNCHANGED <<call, last, mu, hist>>
    /\ UNCHANGED <<phaseVars, trackVars>>

\* A send on dataModified by serve() meets the <-rb.dataModified of p, which
\* is in Push, Pop or Clear.  Push and Clear return; Pop returns absent on
\* false and goes on to <-rb.dataChan on true.
SendModified(p) ==
    /\ pc[p] = "recvModified"
    /\ srv.pc \in DOMAIN ModifiedSends
    /\ LET r == CASE srv.pc = "checkCap" -> servePopFrom(rb, 2)
                  [] srv.pc = "checkWrapped" -> servePopFrom(rb, 3)
                  [] srv.pc = "checkCaughtUp" -> servePopFrom(rb, 4)
                  [] srv.pc = "popModified" -> [rb |-> rb, pc |-> "popData"]
                  [] OTHER -> [rb |-> rb, pc |-> "select"]
       IN  /\ rb' = r.rb
           /\ srv' = [pc |-> r.pc,
                      item |-> IF r.pc = "select" THEN Zero ELSE srv.item]
    /\ IF call[p].op = "Pop"
       THEN IF ModifiedSends[srv.pc]
            THEN /\ pc' = [pc EXCEPT ![p] = "recvData"]
                 /\ UNCHANGED <<call, last>>
            ELSE ChanReturn(p, Zero, FALSE)
       ELSE ChanReturn(p, Zero, TRUE)
    /\ UNCHANGED <<mu, hist>>
    /\ UNCHANGED <<phaseVars, trackVars>>

\* A send on dataChan by serve() meets the <-rb.dataChan of p, which is in
\* Pop or Get.
SendData(p) ==
    /\ pc[p] = "recvData"
    /\ srv.pc \in DataSends
    /\ ChanReturn(p, srv.item, TRUE)
    /\ srv' = [pc |-> "select", item |-> Zero]
    /\ UNCHANGED <<rb, mu, hist>>
    /\ UNCHANGED <<phaseVars, trackVars>>

\* The rb.dataChan <- item of p's Push meets the <-rb.dataChan of q, which is
\* in Pop or Get: dataChan carries both directions.
PushToReader(p, q) ==
    /\ p # q
    /\ pc[p] = "sendData"
    /\ pc[q] = "recvData"
    /\ last' = [op |-> call[q].op, arg |-> call[q].arg, val |-> call[p].arg,
                ok |-> TRUE, err |-> ErrNil]
    /\ call' = [call EXCEPT ![q] = NoCall]
    /\ pc' = [pc EXCEPT ![p] = "recvModified", ![q] = "idle"]
    /\ UNCHANGED <<rb, srv, mu, hist>>
    /\ UNCHANGED <<phaseVars, trackVars>>

ChanStep(p) ==
    \/ ChanSize(p)
    \/ ChanCheckEmpty(p)
    \/ ServePush(p)
    \/ ServePop(p)
    \/ ServeGet(p)
    \/ ServeClear(p)
    \/ SendModified(p)
    \/ SendData(p)

NextChan ==
    \/ \E p \in Procs, item \in Items : ChanInvoke(p, "Push", item)
    \/ \E p \in Procs, op \in ChanOps \ {"Push"} : ChanInvoke(p, op, Zero)
    \/ \E p \in Procs : ChanStep(p)
    \/ \E p, q \in Procs : PushToReader(p, q)

SpecChan == InitChan /\ [][NextChan]_vars

\* One goroutine makes all the calls.
Solo == CHOOSE p \in Procs : TRUE

NextChanSolo ==
    \/ \E item \in Items : ChanInvoke(Solo, "Push", item)
    \/ \E op \in ChanOps \ {"Push"} : ChanInvoke(Solo, op, Zero)
    \/ ChanStep(Solo)

SpecChanSolo == InitChanSolo /\ [][NextChanSolo]_vars

\* ------------------------------------------------------------ claims, one caller
\* C1, C3, C4, C10, C11, C14, C17, C19, C21, C22, C24 and C25 are about
\* SpecSeq, C12, C13, C15 and C18 about SpecTrack, C20 about SpecCount, C16
\* about SpecNew, C27 about SpecChanSolo, C28 about SpecLap.

\* C1 (as claimed): after c + k sequential pushes on a new buffer of capacity
\* c, the following (at most c) pops return the last c pushed items, oldest
\* first.
C1_OverwriteLaw ==
    (phase = "pop" /\ Len(pushed) >= rb.cap) =>
        \A i \in 1..Len(popped) :
            popped[i] = [val |-> pushed[Len(pushed) - rb.cap + i], ok |-> TRUE]

\* C3: while only TryPush, Pop, Get and Clear are called, the buffer is a
\* bounded FIFO queue: TryPush is accepted exactly when fewer than capacity
\* accepted items are stored, and Pop and Get return the oldest stored accepted
\* item, or absent when none is stored.
C3_TryPushFifo ==
    [][tryOnly =>
        /\ \A item \in Items :
              CallTryPush(item) =>
                  last'.err = IF Len(fifo) < rb.cap THEN ErrNil ELSE ErrBufferIsFull
        /\ (CallPop \/ CallGet) =>
              /\ last'.ok = (fifo # <<>>)
              /\ last'.val = IF fifo # <<>> THEN Head(fifo) ELSE Zero]_vars

\* C3 witness: a Pop returned an accepted item while the stored items wrap
\* around the end of the slot array.
C3_Witness ==
    /\ tryOnly
    /\ last.op = "Pop" /\ last.ok
    /\ Len(fifo) >= 1
    /\ rb.writerIdx < rb.readerIdx

\* C4: TryPush on a full buffer returns ErrBufferIsFull and changes neither
\* a slot nor size, cursors or the wrapped flag.
C4_TryPushRejectsWhenFull ==
    [][\A item \in Items :
          (CallTryPush(item) /\ rb.size = rb.cap) =>
              (last'.err = ErrBufferIsFull /\ rb' = rb)]_vars

\* C4 witness: a TryPush was rejected on a full buffer.
C4_Witness ==
    /\ last.op = "TryPush"
    /\ last.err = ErrBufferIsFull
    /\ rb.size = rb.cap

\* C10: Pop and Get on an empty buffer return (zero value, false) and change
\* nothing.
C10_PopGetOnEmpty ==
    [][((CallPop \/ CallGet) /\ rb.size = 0) =>
          (last'.val = Zero /\ ~last'.ok /\ rb' = rb)]_vars

\* C10 witness: a Pop returned absent on a buffer that was used and drained.
C10_Witness ==
    /\ last.op = "Pop" /\ ~last.ok
    /\ rb.size = 0
    /\ rb.readerIdx # 0

\* C11: Get on a non-empty buffer returns (v, true) with v the value of the
\* slot at the read cursor, changes no field of the buffer, and a Pop that
\* follows it at once returns the same (v, true).
C11_GetIsPurePeek ==
    [][/\ (CallGet /\ rb.size > 0) =>
              /\ last'.ok
              /\ last'.val = rb.data[rb.readerIdx]
              /\ rb' = rb
       /\ (CallPop /\ last.op = "Get" /\ last.ok) =>
              (last'.ok /\ last'.val = last.val)]_vars

\* C11 witness: Get returned an item from a buffer whose read cursor has
\* moved and whose newest item is another one.
C11_Witness ==
    /\ last.op = "Get" /\ last.ok
    /\ rb.readerIdx # 0
    /\ rb.size >= 2
    /\ rb.data[rb.readerIdx] # rb.data[rb.lastWriterIdx]

\* C12: after Clear returns, Size() is 0 and IsEmpty() is true; and while only
\* Push calls (and queries) follow, IsFull() is false after fewer than capacity
\* pushes and true after exactly capacity pushes.
C12_ClearResetsOccupancy ==
    [][/\ TrackClear => (Size(rb') = 0 /\ IsEmpty(rb'))
       /\ (since.op = "Clear" /\ since.phase = "push") =>
              /\ TrackIsFull => (last'.ok = (Len(since.pushed) = rb.cap))
              /\ TrackSize => (last'.val = Len(since.pushed))
              /\ TrackIsEmpty => (last'.ok = (since.pushed = <<>>))]_vars

\* C12 witness: IsFull() returned true after exactly capacity pushes that
\* followed a Clear of a non-empty buffer.
C12_Witness ==
    /\ since.op = "Clear" /\ since.nonEmpty /\ since.phase = "push"
    /\ Len(since.pushed) = rb.cap
    /\ rb.cap >= 2
    /\ last.op = "IsFull" /\ last.ok

\* What the k-th pop after a Clear or DeepClear is to return when the items of
\* since.pushed were pushed in between: the k-th of them, or absent.
ExpectedPop(k) ==
    IF k <= Len(since.pushed)
    THEN [val |-> since.pushed[k], ok |-> TRUE]
    ELSE [val |-> Zero, ok |-> FALSE]

\* C13 (as claimed): after Clear returns, the write cursor and the read cursor
\* are 0, the wrapped flag is false and the size is 0; the items pushed after
\* it (up to capacity of them) go to the slots 0, 1, 2, ... in push order and
\* the pops that follow return them in that order.
C13_ClearResetsToInitial ==
    [][/\ TrackClear =>
              /\ rb'.writerIdx = 0 /\ rb'.readerIdx = 0
              /\ rb'.wrapped = FALSE /\ rb'.size = 0
       /\ (since.op = "Clear" /\ since.phase = "push"
               /\ Len(since.pushed) < rb.cap) =>
              \A item \in Items :
                  TrackPush(item) => rb'.data[Len(since.pushed)] = item
       /\ (since.op = "Clear" /\ since.phase \in {"push", "pop"}
               /\ Len(since.popped) <= Len(since.pushed)) =>
              (TrackPop =>
                  [val |-> last'.val, ok |-> last'.ok]
                      = ExpectedPop(Len(since.popped) + 1))]_vars

\* C14 (as claimed): after DeepClear returns, every one of the capacity slots
\* holds the zero value.
C14_DeepClearScrubsAllSlots ==
    [][CallDeepClear => \A i \in 0..(rb.cap - 1) : rb'.data[i] = Zero]_vars

\* C15 (as claimed): after DeepClear returns on a non-empty buffer, size is 0,
\* both cursors are 0 and the wrapped flag is false; the pops that follow the
\* pushes made after it (up to capacity of them) return their items in push
\* order.
C15_DeepClearResetsCursors ==
    [][/\ (TrackDeepClear /\ rb.size > 0) =>
              /\ rb'.size = 0
              /\ rb'.writerIdx = 0 /\ rb'.readerIdx = 0
              /\ rb'.wrapped = FALSE
       /\ (since.op = "DeepClear" /\ since.nonEmpty
               /\ since.phase \in {"push", "pop"}
               /\ Len(since.popped) <= Len(since.pushed)) =>
              (TrackPop =>
                  [val |-> last'.val, ok |-> last'.ok]
                      = ExpectedPop(Len(since.popped) + 1))]_vars

\* C16: New(capacity) returns ErrInvalidBuffCap and nil for every capacity
\* below 1; for every capacity from 1 on it returns a nil error and a buffer
\* of capacity zero-valued slots with size 0, both cursors 0 and wrapped false.
C16_ConstructionValidation ==
    [][\A c \in NewCaps :
          CallNew(c) =>
              IF c < 1
              THEN last'.err = ErrInvalidBuffCap /\ rb' = NilBuf
              ELSE /\ last'.err = ErrNil
                   /\ rb' # NilBuf
                   /\ DOMAIN rb'.data = 0..(c - 1)
                   /\ \A i \in 0..(c - 1) : rb'.data[i] = Zero
                   /\ rb'.cap = c /\ rb'.size = 0
                   /\ rb'.writerIdx = 0 /\ rb'.readerIdx = 0
                   /\ rb'.wrapped = FALSE]_vars

\* C16 witness: New(0) failed and the caller holds nil.
C16_Witness ==
    /\ last.op = "New" /\ last.arg = 0
    /\ last.err = ErrInvalidBuffCap
    /\ rb = NilBuf

\* C17: on a buffer of capacity 1, whatever was called before, Push(x) leaves
\* the buffer full; a Get or a Pop that follows the Push at once returns
\* (x, true); the Pop that follows that Pop at once returns absent, the buffer
\* being empty.
C17_SingleSlot ==
    [][(rb.cap = 1) =>
          /\ \A x \in Items :
                CallPush(x) => (IsFull(rb') /\ Get(rb') = Result(rb', x, TRUE, ErrNil))
          /\ ((CallGet \/ CallPop) /\ last.op = "Push") =>
                (last'.ok /\ last'.val = last.arg)
          /\ (CallPop /\ last.op = "Push") => IsEmpty(rb')
          /\ (CallPop /\ last.op = "Pop" /\ last.ok) =>
                (~last'.ok /\ last'.val = Zero)]_vars

\* C17 witness: a Pop returned an item and emptied a buffer of capacity 1.
C17_Witness ==
    /\ rb.cap = 1
    /\ last.op = "Pop" /\ last.ok /\ last.val \in Items
    /\ rb.size = 0

\* C18 (as claimed): in every state reached by sequential calls the occupied
\* slots are the size consecutive slots from the read cursor on, so that
\* (readerIdx + size) mod capacity = writerIdx, and while size > 0 the slot at
\* the read cursor holds the oldest unread item.
C18_LiveWindow ==
    /\ (rb.readerIdx + rb.size) % rb.cap = rb.writerIdx
    /\ (rb.size > 0) => (queue # <<>> /\ rb.data[rb.readerIdx] = Head(queue))

\* C19 (as claimed): whenever Push runs on a full buffer, the slot it
\* overwrites is the one at the read cursor: writerIdx = readerIdx before the
\* Push, and the slot written is data[readerIdx].
C19_OverwriteHitsReadCursor ==
    [][\A item \in Items :
          (CallPush(item) /\ rb.size = rb.cap) =>
              /\ rb.writerIdx = rb.readerIdx
              /\ rb'.lastWriterIdx = rb.readerIdx]_vars

\* C20 (as claimed): every value that Pop or Get returns with ok = true is an
\* item that was pushed before and that no Pop has returned yet, and Pop
\* succeeds no more often than items were pushed; so Pop never returns
\* (zero value, true).
C20_NoPhantomValues ==
    [][/\ ((TallyPop \/ TallyGet) /\ last'.ok) =>
              /\ last'.val \in Items
              /\ unread.items[last'.val] > 0
       /\ (TallyPop /\ last'.ok) => unread.balance > 0]_vars

\* The 1-based positions in pushed of the pushes that went to slot i of a
\* buffer of c slots, and the largest member of a non-empty set of numbers.
PushesTo(i, c) == {k \in 1..Len(pushed) : (k - 1) % c = i}
Largest(S) == CHOOSE k \in S : \A j \in S : j <= k

\* C21: after n pushes and nothing else on a new buffer of capacity c, slot i
\* holds the item of the last push whose 0-based index is congruent to i
\* modulo c, or the zero value when there was none, and Size() is min(n, c).
C21_SlotLayout ==
    (phase = "push") =>
        /\ \A i \in 0..(rb.cap - 1) :
              rb.data[i] = IF PushesTo(i, rb.cap) = {} THEN Zero
                           ELSE pushed[Largest(PushesTo(i, rb.cap))]
        /\ Size(rb) = Min(Len(pushed), rb.cap)

\* C21 witness: more than twice capacity pushes on a buffer of at least two
\* slots, which then hold different items.
C21_Witness ==
    /\ phase = "push"
    /\ rb.cap >= 2
    /\ Len(pushed) > 2 * rb.cap
    /\ rb.data[0] # rb.data[1]

\* C22: a Pop on a non-empty buffer returns the value of the slot at the read
\* cursor with ok = true, sets that slot to the zero value, decrements size by
\* 1, advances the read cursor by one modulo capacity, sets wrapped to false
\* when the read cursor went to 0 and leaves it otherwise, and changes neither
\* the write cursor, the last-write position nor any other slot.
C22_PopEffect ==
    [][(CallPop /\ rb.size > 0) =>
          /\ last'.ok /\ last'.val = rb.data[rb.readerIdx]
          /\ rb'.data = [i \in 0..(rb.cap - 1) |->
                            IF i = rb.readerIdx THEN Zero ELSE rb.data[i]]
          /\ rb'.size = rb.size - 1
          /\ rb'.readerIdx = (rb.readerIdx + 1) % rb.cap
          /\ rb'.wrapped = IF rb.readerIdx = rb.cap - 1 THEN FALSE ELSE rb.wrapped
          /\ rb'.writerIdx = rb.writerIdx
          /\ rb'.lastWriterIdx = rb.lastWriterIdx
          /\ rb'.cap = rb.cap]_vars

\* C22 witness: a Pop took the item of the last slot of a buffer of at least
\* two slots, the read cursor went back to 0 and another item is left.
C22_Witness ==
    /\ last.op = "Pop" /\ last.ok /\ last.val \in Items
    /\ rb.cap >= 2
    /\ rb.readerIdx = 0
    /\ rb.wrapped = FALSE
    /\ rb.size >= 1

C25_OccupancyQueries ==
    [][/\ CallIsEmpty => (last'.ok = (rb.size = 0))
       /\ CallIsFull => (last'.ok = (rb.size = rb.cap))
       /\ ~(IsEmpty(rb) /\ IsFull(rb))
       /\ (CallIsFull /\ phase = "push") =>
             (last'.ok = (Len(pushed) >= rb.cap))]_vars

\* C25 witness: IsFull() answered true on a buffer of two slots or more whose
\* write cursor went round and stands one past the start.
C25_Witness ==
    /\ last.op = "IsFull"
    /\ last.ok
    /\ rb.cap >= 2
    /\ rb.wrapped
    /\ rb.writerIdx = 1
    /\ rb.size = rb.cap

\* C27 (as claimed): in the channel-served variant with a single caller, a Pop
\* called on a buffer holding at least one element returns (the element at
\* the read cursor, true) and leaves one element less; a Pop called on an
\* empty buffer returns (zero value, false).
C27_ChanPopResult ==
    [][(pc[Solo] # "idle" /\ call[Solo].op = "Pop" /\ pc'[Solo] = "idle") =>
          IF call[Solo].size > 0
          THEN /\ last'.ok
               /\ last'.val = call[Solo].head
               /\ rb'.size = call[Solo].size - 1
          ELSE /\ ~last'.ok
               /\ last'.val = Zero]_vars

Calls == DOMAIN hist
Completed(i) == hist[i].res # 0
\* Call i returned before call j was made.
Precedes(i, j) == Completed(i) /\ hist[i].res < hist[j].inv
Concurrent(i, j) == i # j /\ ~Precedes(i, j) /\ ~Precedes(j, i)
OnlyCalls(ops) == \A i \in Calls : hist[i].op \in ops
PushedItems == {hist[i].arg : i \in Calls}

\* C2: the stored size is within [0, capacity] in every state, and so is every
\* value Size() returned.
C2_CapacityBound ==
    /\ 0 <= rb.size /\ rb.size <= rb.cap
    /\ \A i \in Calls :
          (hist[i].op = "Size" /\ Completed(i)) => (hist[i].val \in 0..rb.cap)

\* C2 witness: Size() returned the capacity after more pushes than the
\* capacity, one of them concurrent with the Size call.
C2_Witness ==
    \E i, j \in Calls :
        /\ hist[i].op = "Size" /\ Completed(i) /\ hist[i].val = rb.cap
        /\ hist[j].op = "Push" /\ Concurrent(i, j)
        /\ Cardinality({k \in Calls : hist[k].op = "Push" /\ Completed(k)}) > rb.cap

\* C5 (as claimed): of two TryPush calls that run concurrently, with no third
\* call, on a buffer with exactly one free slot, at most one returns nil; and
\* no stored item is overwritten: when every call so far was a TryPush, no
\* more than capacity of them were accepted.
C5_TryPushNeverOverwrites ==
    \A i, j \in Calls :
        ( /\ i # j
          /\ hist[i].op = "TryPush" /\ hist[j].op = "TryPush"
          /\ Completed(i) /\ Completed(j) /\ Concurrent(i, j)
          /\ hist[i].size = rb.cap - 1 /\ hist[j].size = rb.cap - 1
          /\ \A k \in Calls \ {i, j} : Precedes(k, i) /\ Precedes(k, j) )
        => /\ ~(hist[i].err = ErrNil /\ hist[j].err = ErrNil)
           /\ OnlyCalls({"TryPush"}) =>
                 Cardinality({k \in Calls : Completed(k) /\ hist[k].err = ErrNil})
                     <= rb.cap

\* What op(arg) returns when it runs alone on buffer b.
Apply(b, c) ==
    CASE c.op = "Push" -> Push(b, c.arg)
      [] c.op = "TryPush" -> TryPush(b, c.arg)
      [] c.op = "Pop" -> Pop(b)
      [] c.op = "Get" -> Get(b)
      [] c.op = "Size" -> Result(b, Size(b), TRUE, ErrNil)
      [] c.op = "IsEmpty" -> Result(b, Zero, IsEmpty(b), ErrNil)
      [] c.op = "IsFull" -> Result(b, Zero, IsFull(b), ErrNil)
      [] c.op = "Clear" -> Clear(b)
      [] c.op = "DeepClear" -> DeepClear(b)

\* The total orders of the calls: f[k] is the call that runs k-th.
Orders == {f \in [Calls -> Calls] : \A i, j \in Calls : i # j => f[i] # f[j]}
RespectsRealTime(f) == \A k1, k2 \in Calls : k1 < k2 => ~Precedes(f[k2], f[k1])

\* Running the calls one at a time in order f from buffer b gives every call
\* the result it returned and ends in the buffer's present state.
RECURSIVE Replays(_, _, _)
Replays(b, f, k) ==
    IF k > Len(hist)
    THEN b = rb
    ELSE LET c == hist[f[k]]
             r == Apply(b, c)
         IN  /\ r.val = c.val /\ r.ok = c.ok /\ r.err = c.err
             /\ Replays(r.rb, f, k + 1)

Linearizable == \E f \in Orders : RespectsRealTime(f) /\ Replays(New(rb.cap).rb, f, 1)

\* C6 (as claimed): every execution of Push, Pop, Get, Clear, Size, IsEmpty and
\* IsFull calls has a total order of the calls, consistent with their
\* real-time order, that gives the same results and final buffer.
C6_Linearizable ==
    (AllIdle /\ OnlyCalls({"Push", "Pop", "Get", "Clear", "Size", "IsEmpty", "IsFull"}))
        => Linearizable

\* The same without Clear: the calls that are one lock section each.
LinearizableWithoutClear ==
    (AllIdle /\ OnlyCalls({"Push", "Pop", "Get", "Size", "IsEmpty", "IsFull"}))
        => Linearizable

\* C7: every call that is under way returns, and the caller then holds the
\* mutex in neither mode.
C7_EveryCallReturns ==
    \A p \in Procs :
        (pc[p] # "idle") ~> (pc[p] = "idle" /\ mu.writer # p /\ p \notin mu.readers)

\* C7 witness: a goroutine waits for the write lock while another holds the
\* mutex.
C7_Witness ==
    \E p, q \in Procs :
        /\ p # q
        /\ pc[p] \in {"lock", "drain"}
        /\ pc[q] \in {"locked", "read"}

\* C8: after concurrent pushes of n pairwise distinct items, and nothing else,
\* into a buffer of capacity >= n, the first n slots hold exactly those items.
C8_ConcurrentPushesKeepAllItems ==
    LET n == Len(hist) IN
    ( /\ AllIdle
      /\ OnlyCalls({"Push"})
      /\ Cardinality(PushedItems) = n
      /\ n <= rb.cap )
    => /\ {rb.data[s] : s \in 0..(n - 1)} = PushedItems
       /\ \A s, t \in 0..(n - 1) : s # t => rb.data[s] # rb.data[t]

\* C8 witness: two goroutines pushed distinct items concurrently and both
\* returned.
C8_Witness ==
    /\ AllIdle
    /\ OnlyCalls({"Push"})
    /\ Cardinality(PushedItems) = Len(hist)
    /\ Len(hist) <= rb.cap
    /\ \E i, j \in Calls : Concurrent(i, j) /\ hist[i].proc # hist[j].proc

\* C9: after n concurrent pushes, and nothing else, Size() is min(n, c).
C9_SizeAfterConcurrentPushes ==
    (AllIdle /\ OnlyCalls({"Push"})) => Size(rb) = Min(Len(hist), rb.cap)

\* C9 witness: more pushes than the capacity returned, two of them concurrent.
C9_Witness ==
    /\ AllIdle
    /\ OnlyCalls({"Push"})
    /\ Len(hist) > rb.cap
    /\ \E i, j \in Calls : Concurrent(i, j)

\* Both cursors designate a slot of b.
CursorsInRange(b) ==
    /\ DOMAIN b.data = 0..(b.cap - 1)
    /\ b.writerIdx \in 0..(b.cap - 1)
    /\ b.readerIdx \in 0..(b.cap - 1)

\* C23: in every state reached by the goroutines' calls both cursors are in
\* 0..capacity-1, the range of the slots, and a step that changes a cursor
\* equal to capacity - 1 sets it to 0.
C23_CursorBounds ==
    [][/\ CursorsInRange(rb) /\ CursorsInRange(rb')
       /\ (rb.writerIdx = rb.cap - 1 /\ rb'.writerIdx # rb.writerIdx) =>
              rb'.writerIdx = 0
       /\ (rb.readerIdx = rb.cap - 1 /\ rb'.readerIdx # rb.readerIdx) =>
              rb'.readerIdx = 0]_vars

\* C23 witness: two concurrent Push calls have returned and the write cursor
\* has gone round to 0 on a buffer of at least two slots.
C23_Witness ==
    /\ rb.cap >= 2
    /\ rb.writerIdx = 0 /\ rb.wrapped
    /\ \E i, j \in Calls :
          /\ hist[i].op = "Push" /\ hist[j].op = "Push"
          /\ Completed(i) /\ Completed(j)
          /\ Concurrent(i, j)

\* C26 (as claimed): in the channel-served variant the serving goroutine is
\* back at its select whenever no call is in progress, with no send of its
\* own left without a receiver, so that the next call can be served.
C26_ServeBackAtSelect == AllIdle => srv.pc = "select"
====
